---- MODULE Spec2Model ----
(***************************************************************************)
(* Model of sensor.cpp: two sampler threads (sensor_thread for CPU usage,  *)
(* disk_usage_thread for disk usage) write the fields of the global        *)
(* sensor_reading one by one, comm_thread copies it, validates the copy    *)
(* and performs one REQ/REP exchange per processed tick; main starts and   *)
(* joins the threads; handle_sigint clears the shared running flag.        *)
(*                                                                         *)
(* Each thread is split into steps at its accesses to shared memory; a     *)
(* step that touches only thread-local state, or only reads the atomic     *)
(* running flag, is taken together with the shared access that follows it. *)
(* Floating-point percentages are exact rationals [num, den] (den > 0).    *)
(* Two unsynchronized accesses to the same std::string member that overlap *)
(* in time are one joint step of both threads (the Raced... actions); the  *)
(* non-overlapping orders are the interleavings of the single steps.       *)
(* write_counter (sensor.cpp:33) is only ever incremented and never read   *)
(* by any thread; it is left out of the state.                             *)
(***************************************************************************)
EXTENDS Integers, Sequences, FiniteSets, TLC

\* ------------------------------------------------------------------ bounds
MaxTicks  == 2   \* reporter loop iterations explored
MaxPubs   == 1   \* loop iterations explored for each sampler

\* --------------------------------------------------------------- constants
CPU_ID  == "cpu_usage_01"
DISK_ID == "disk_usage_root"
\* a std::string accessed while another thread assigns it (a data race):
\* content that is neither the old nor the new value
Garbled == "<torn>"

Threads == {"cpu", "disk", "comm", "main"}

\* ---------------------------------------------------------------- rationals
RECURSIVE GCD(_, _)
GCD(a, b) == IF b = 0 THEN a ELSE GCD(b, a % b)

Abs(x) == IF x < 0 THEN -x ELSE x

\* the double n/d, d > 0, in lowest terms
Ratio(n, d) ==
    LET g == GCD(Abs(n), d)
    IN  [num |-> n \div g, den |-> d \div g]

Whole(n) == [num |-> n, den |-> 1]

Gt(v, k) == v.num > k * v.den
Lt(v, k) == v.num < k * v.den

\* ------------------------------------------------------------ data records
\* SensorData(): sensor_id(""), value(-1.0), timestamp(""), is_valid(false)
SensorData ==
    [sensor_id |-> "", value |-> Whole(-1), timestamp |-> "", is_valid |-> FALSE]

\* CpuTimes x = {0}
ZeroCpuTimes ==
    [user |-> 0, nice |-> 0, system |-> 0, idle |-> 0,
     iowait |-> 0, irq |-> 0, softirq |-> 0, steal |-> 0]

\* the first line of /proc/stat at the n-th read of a run (n = 0 for the read
\* before the loop) on a machine that is busy throughout: one user tick
\* further at every read
BusyMachine ==
    [n \in 0..MaxPubs |-> [ZeroCpuTimes EXCEPT !.user = n + 1, !.idle = 1]]

\* mutant of cpu_usage_of: no usage is computed, 0.0 is reported
cpu_usage_of_Zero(prev, current) == Whole(0)

\* the value calculate_cpu_usage returns for the stored and the current counters
cpu_usage_of(prev, current) ==
    LET prev_idle     == prev.idle + prev.iowait
        curr_idle     == current.idle + current.iowait
        prev_non_idle == prev.user + prev.nice + prev.system
                         + prev.irq + prev.softirq + prev.steal
        curr_non_idle == current.user + current.nice + current.system
                         + current.irq + current.softirq + current.steal
        prev_total    == prev_idle + prev_non_idle
        curr_total    == curr_idle + curr_non_idle
        total_diff    == curr_total - prev_total
        idle_diff     == curr_idle - prev_idle
    IN  IF total_diff > 0
        THEN Ratio((total_diff - idle_diff) * 100, total_diff)
        ELSE Whole(0)

\* statvfs("/"): failure, or block counts (f_blocks, f_bfree)
StatvfsResults ==
    {[ok |-> FALSE, f_blocks |-> 0, f_bfree |-> 0],
     [ok |-> TRUE,  f_blocks |-> 2, f_bfree |-> 1]}

get_disk_usage_percent(stat) ==
    IF ~stat.ok
    THEN Whole(-1)
    ELSE LET total == stat.f_blocks
             free  == stat.f_bfree
             used  == total - free
         IN  Ratio(used * 100, total)

\* strftime("%FT%TZ") of the clock reading `now` (seconds into 2024-01-01)
timestamp(now) == "2024-01-01T00:00:0" \o ToString(now) \o "Z"

\* std::time(nullptr) during the runs explored, which last under a second
ClockReadings == {1}

\* ------------------------------------------------------------------- state
VARIABLES
    running,          \* std::atomic<bool> running
    sensor_reading,   \* the shared SensorData
    prev_cpu_times,   \* global CpuTimes
    pc,               \* position of each thread
    cpu_usage,        \* sensor_thread: local cpu_usage
    usage,            \* disk_usage_thread: local usage
    current_reading,  \* comm_thread: local copy of the slot
    data_consistent,  \* comm_thread: local flag
    total_reads,      \* comm_thread: local counter
    corruption_count, \* comm_thread: local counter
    message,          \* comm_thread: the JSON message of this tick
    g_sock,           \* the REQ socket: "none", "ready", "awaiting"
    exit_status,      \* value returned by main, -1 while running
    proc_stat,        \* environment: the counters in /proc/stat at each read
    transport_failures, \* log: "[WARN] No reply" and "[ERROR] ZMQ send/recv failed"
                      \* lines printed since the reporter's latest tick began
    stats_log,        \* log: the "[STATS]" summaries, in order
    final_stats,      \* log: the "[FINAL STATS]" summaries, in order
    ticks,            \* history: loop iterations begun by the reporter
    pubs,             \* history: loop iterations begun by each sampler
    published         \* history: (sensor_id, value, timestamp) of each publication

vars == <<running, sensor_reading, prev_cpu_times, pc, cpu_usage, usage,
          current_reading, data_consistent, total_reads, corruption_count,
          message, g_sock, exit_status, proc_stat, transport_failures, stats_log,
          final_stats, ticks, pubs, published>>

cpu_vars     == <<prev_cpu_times, cpu_usage>>
comm_vars    == <<current_reading, data_consistent, total_reads,
                  corruption_count, message, g_sock>>
env_vars     == <<exit_status, proc_stat>>
log_vars     == <<transport_failures, stats_log, final_stats>>
history_vars == <<pubs, published>>

Samplers == {"cpu", "disk"}

\* what read_cpu_times() returns at the n-th read: the counters parsed from
\* the first line of /proc/stat, all zero when the line cannot be read
read_cpu_times(n) == proc_stat[n]

NoValue   == Whole(0)
NoMessage == [empty |-> TRUE]

Goto(t, l) == pc' = [pc EXCEPT ![t] = l]

Init ==
    /\ running = TRUE
    /\ sensor_reading = SensorData
    /\ prev_cpu_times = ZeroCpuTimes
    /\ pc = [t \in Threads |-> IF t = "main" THEN "connect" ELSE "idle"]
    /\ cpu_usage = NoValue
    /\ usage = NoValue
    /\ current_reading = SensorData
    /\ data_consistent = TRUE
    /\ total_reads = 0
    /\ corruption_count = 0
    /\ message = NoMessage
    /\ g_sock = "none"
    /\ exit_status = -1
    /\ proc_stat = BusyMachine
    /\ transport_failures = 0
    /\ stats_log = <<>>
    /\ final_stats = <<>>
    /\ ticks = 0
    /\ pubs = [t \in Samplers |-> 0]
    /\ published = {}

\* ------------------------------------------------------------ handle_sigint
handle_sigint ==
    /\ pc["main"] \notin {"done", "failed"}
    /\ running
    /\ running' = FALSE
    /\ UNCHANGED <<sensor_reading, cpu_vars, pc, usage, comm_vars, env_vars,
                   log_vars, ticks, history_vars>>

\* ------------------------------------------------- writes to the shared slot
\* sampler t is at the top of its loop and enters the body
Enters(t) == pc[t] = "loop" /\ running /\ pubs[t] < MaxPubs

SensorId(t) == IF t = "cpu" THEN CPU_ID ELSE DISK_ID

\* while (running) { <measure>; sensor_reading.sensor_id = id;
SamplerLoop(t) ==
    /\ pc[t] = "loop"
    /\ IF running
       THEN /\ pubs[t] < MaxPubs
            /\ pubs' = [pubs EXCEPT ![t] = @ + 1]
            /\ sensor_reading' = [sensor_reading EXCEPT !.sensor_id = SensorId(t)]
            /\ Goto(t, "set_value")
       ELSE /\ Goto(t, "done")
            /\ UNCHANGED <<pubs, sensor_reading>>
    /\ UNCHANGED <<running, comm_vars, env_vars, log_vars, ticks, published>>

\* mutant of SetValue: the write waits while the reporter awaits a reply
SetValue_WaitsForReporter(t, v) ==
    /\ pc[t] = "set_value"
    /\ pc["comm"] # "recv"
    /\ sensor_reading' = [sensor_reading EXCEPT !.value = v]
    /\ Goto(t, "set_ts")
    /\ UNCHANGED <<running, cpu_vars, usage, comm_vars, env_vars, log_vars, ticks, history_vars>>

\* sensor_reading.value = v;
SetValue(t, v) ==
    /\ pc[t] = "set_value"
    /\ sensor_reading' = [sensor_reading EXCEPT !.value = v]
    /\ Goto(t, "set_ts")
    /\ UNCHANGED <<running, cpu_vars, usage, comm_vars, env_vars, log_vars, ticks, history_vars>>

\* the arguments of the publication sampler t is making, stamped at `clock`
Publication(t, clock) ==
    [sensor_id |-> SensorId(t),
     value     |-> IF t = "cpu" THEN cpu_usage ELSE usage,
     timestamp |-> timestamp(clock)]

\* sensor_reading.timestamp = timestamp();
SetTimestamp(t) ==
    /\ pc[t] = "set_ts"
    /\ \E clock \in ClockReadings :
          /\ sensor_reading' = [sensor_reading EXCEPT !.timestamp = timestamp(clock)]
          /\ published' = published \cup {Publication(t, clock)}
    /\ Goto(t, "set_valid")
    /\ UNCHANGED <<running, cpu_vars, usage, comm_vars, env_vars, log_vars, ticks, pubs>>

\* sensor_reading.is_valid = true; and the end of the loop body
SetIsValid(t) ==
    /\ pc[t] = "set_valid"
    /\ sensor_reading' = [sensor_reading EXCEPT !.is_valid = TRUE]
    /\ Goto(t, "loop")
    /\ UNCHANGED <<running, prev_cpu_times, comm_vars, env_vars, log_vars, ticks, history_vars>>

\* ------------------------------------------------------------ sensor_thread
\* prev_cpu_times = read_cpu_times(); sleep
CpuStart ==
    /\ pc["cpu"] = "start"
    /\ prev_cpu_times' = read_cpu_times(0)
    /\ Goto("cpu", "loop")
    /\ UNCHANGED <<running, sensor_reading, cpu_usage, usage, comm_vars,
                   env_vars, log_vars, ticks, history_vars>>

\* calculate_cpu_usage(): the value returned and the update of prev_cpu_times
calculate_cpu_usage ==
    LET current == read_cpu_times(pubs["cpu"] + 1)
    IN  /\ cpu_usage' = cpu_usage_of(prev_cpu_times, current)
        /\ prev_cpu_times' = current

CpuLoop ==
    /\ SamplerLoop("cpu")
    /\ IF running THEN calculate_cpu_usage ELSE UNCHANGED cpu_vars
    /\ UNCHANGED usage

CpuSetValue == SetValue("cpu", cpu_usage)

CpuSetTimestamp == SetTimestamp("cpu")

CpuSetIsValid ==
    /\ SetIsValid("cpu")
    /\ cpu_usage' = NoValue
    /\ UNCHANGED usage

sensor_thread ==
    CpuStart \/ CpuLoop \/ CpuSetValue \/ CpuSetTimestamp \/ CpuSetIsValid

\* -------------------------------------------------------- disk_usage_thread
\* double usage = get_disk_usage_percent("/");
measure_disk_usage ==
    \E stat \in StatvfsResults : usage' = get_disk_usage_percent(stat)

DiskLoop ==
    /\ SamplerLoop("disk")
    /\ IF running THEN measure_disk_usage ELSE UNCHANGED usage
    /\ UNCHANGED cpu_vars

DiskSetValue == SetValue("disk", usage)

DiskSetTimestamp == SetTimestamp("disk")

DiskSetIsValid ==
    /\ SetIsValid("disk")
    /\ usage' = NoValue
    /\ UNCHANGED cpu_usage

disk_usage_thread ==
    DiskLoop \/ DiskSetValue \/ DiskSetTimestamp \/ DiskSetIsValid

\* -------------------------------------------------------------- comm_thread
\* mutant of Inconsistent: the upper limit tested with >= instead of >
Inconsistent_LimitIncluded(r) ==
    \/ (r.sensor_id = CPU_ID /\ (~Lt(r.value, 100) \/ Lt(r.value, 0)))
    \/ (r.sensor_id = DISK_ID /\ ~Lt(r.value, 100))
    \/ r.sensor_id = ""
    \/ r.timestamp = ""

\* mutant of Inconsistent: a negative disk value is flagged like a CPU one
Inconsistent_NegativeDiskFlagged(r) ==
    \/ (r.sensor_id = CPU_ID /\ (Gt(r.value, 100) \/ Lt(r.value, 0)))
    \/ (r.sensor_id = DISK_ID /\ (Gt(r.value, 100) \/ Lt(r.value, 0)))
    \/ r.sensor_id = ""
    \/ r.timestamp = ""

\* the condition of the if at sensor.cpp:182-185
Inconsistent(r) ==
    \/ (r.sensor_id = CPU_ID /\ (Gt(r.value, 100) \/ Lt(r.value, 0)))
    \/ (r.sensor_id = DISK_ID /\ Gt(r.value, 100))
    \/ r.sensor_id = ""
    \/ r.timestamp = ""

\* mutant of BuildMessage: data_consistent left at its initial true
BuildMessage_AlwaysConsistent(r, consistent) ==
    IF r.sensor_id = CPU_ID
    THEN [sensor_id |-> r.sensor_id, timestamp |-> r.timestamp,
          cpu_usage_percent |-> r.value, data_consistent |-> TRUE]
    ELSE [sensor_id |-> r.sensor_id, timestamp |-> r.timestamp,
          disk_usage_percent |-> r.value, data_consistent |-> TRUE]

\* mutant of BuildMessage: the else branch taken for every sensor_id
BuildMessage_DiskShape(r, consistent) ==
    [sensor_id |-> r.sensor_id, timestamp |-> r.timestamp,
     disk_usage_percent |-> r.value, data_consistent |-> consistent]

\* the json object built at sensor.cpp:195-210
BuildMessage(r, consistent) ==
    IF r.sensor_id = CPU_ID
    THEN [sensor_id |-> r.sensor_id, timestamp |-> r.timestamp,
          cpu_usage_percent |-> r.value, data_consistent |-> consistent]
    ELSE [sensor_id |-> r.sensor_id, timestamp |-> r.timestamp,
          disk_usage_percent |-> r.value, data_consistent |-> consistent]

\* the end of an iteration of comm_thread's loop: current_reading,
\* data_consistent and message go out of scope
EndOfTick ==
    /\ current_reading' = SensorData
    /\ data_consistent' = TRUE
    /\ message' = NoMessage
    /\ Goto("comm", "loop")

\* a "[STATS]" or "[FINAL STATS]" line: the counters and the rate printed
Summary(reads, corruptions) ==
    [total_reads |-> reads, corruptions |-> corruptions,
     rate |-> IF reads > 0 THEN Ratio(corruptions * 100, reads) ELSE Whole(0)]

\* the "[FINAL STATS]" line printed once the loop condition is false
FinalStatsAfterLoop(log, continues) ==
    IF continues THEN log ELSE Append(log, Summary(total_reads, corruption_count))

\* a new iteration of comm_thread's loop begins, within the ticks explored
BeginTick ==
    /\ ticks < MaxTicks
    /\ ticks' = ticks + 1
    /\ transport_failures' = 0

\* while (running) { SensorData current_reading; bool data_consistent = true;
\* and the first member of current_reading = sensor_reading, the implicit
\* memberwise copy assignment in declaration order
CommLoop ==
    /\ pc["comm"] = "loop"
    /\ IF running
       THEN /\ BeginTick
            /\ current_reading' =
                  [SensorData EXCEPT !.sensor_id = sensor_reading.sensor_id]
            /\ Goto("comm", "copy_value")
       ELSE /\ Goto("comm", "done")
            /\ UNCHANGED <<current_reading, ticks, transport_failures>>
    /\ final_stats' = FinalStatsAfterLoop(final_stats, running)
    /\ UNCHANGED <<running, sensor_reading, cpu_vars, usage, data_consistent,
                   total_reads, corruption_count, message, g_sock, env_vars,
                   stats_log, history_vars>>

CommCopy(l, next, member) ==
    /\ pc["comm"] = l
    /\ current_reading' = [current_reading EXCEPT ![member] = sensor_reading[member]]
    /\ Goto("comm", next)
    /\ UNCHANGED <<running, sensor_reading, cpu_vars, usage, data_consistent,
                   total_reads, corruption_count, message, g_sock, env_vars,
                   log_vars, ticks, history_vars>>

CommCopyValue == CommCopy("copy_value", "copy_ts", "value")

CommCopyTimestamp == CommCopy("copy_ts", "copy_valid", "timestamp")

CommCopyIsValid == CommCopy("copy_valid", "process", "is_valid")

\* mutant of ReadsAfterTick: the increment moved inside the is_valid branch
ReadsAfterTick_OnlyProcessed(n, r) == IF r.is_valid THEN n + 1 ELSE n

\* total_reads++ after the copy, before is_valid is tested
ReadsAfterTick(n, r) == n + 1

\* mutant of Processed: the is_valid test dropped
Processed_Always(r) == TRUE

\* if (current_reading.is_valid)
Processed(r) == r.is_valid

\* mutant of CorruptionsAfterTick: the increment moved out of the if
CorruptionsAfterTick_Always(c, r) == c + 1

\* mutant of CorruptionsAfterTick: the increment executed twice
CorruptionsAfterTick_Twice(c, r) == IF Inconsistent(r) THEN c + 2 ELSE c

\* corruption_count++ inside the validation if
CorruptionsAfterTick(c, r) == IF Inconsistent(r) THEN c + 1 ELSE c

\* total_reads++; if (current_reading.is_valid) { validate; build message; ...
CommProcess ==
    /\ pc["comm"] = "process"
    /\ total_reads' = ReadsAfterTick(total_reads, current_reading)
    /\ IF Processed(current_reading)
       THEN /\ data_consistent' = ~Inconsistent(current_reading)
            /\ corruption_count' =
                  CorruptionsAfterTick(corruption_count, current_reading)
            /\ message' = BuildMessage(current_reading, data_consistent')
            /\ Goto("comm", "send")
            /\ UNCHANGED current_reading
       ELSE /\ EndOfTick
            /\ UNCHANGED corruption_count
    /\ UNCHANGED <<running, sensor_reading, cpu_vars, usage, g_sock, env_vars,
                   log_vars, ticks, history_vars>>

\* the statistics are printed on every STATS_PERIOD-th read
STATS_PERIOD == 50

\* if (total_reads % 50 == 0) { print "[STATS]" }
StatsAfterExchange(log) ==
    IF total_reads % STATS_PERIOD = 0
    THEN Append(log, Summary(total_reads, corruption_count))
    ELSE log

\* what follows the try block of a processed tick: the statistics, the end
\* of the iteration
AfterExchange ==
    /\ stats_log' = StatsAfterExchange(stats_log)
    /\ EndOfTick

\* mutant of FailuresAfterSend: the catch block prints nothing
FailuresAfterSend_Silent(n, accepted) == n

\* catch (const std::exception& ex) { "[ERROR] ZMQ send/recv failed" } after send
FailuresAfterSend(n, accepted) == IF accepted THEN n ELSE n + 1

\* if (!ok) "[WARN] No reply from processor"; catch: "[ERROR] ZMQ send/recv failed"
FailuresAfterRecv(n, outcome) == IF outcome = "reply" THEN n ELSE n + 1

\* g_sock->send(...): a REQ socket with a request outstanding refuses the send
\* (EFSM); otherwise the send is accepted or throws
CommSend ==
    /\ pc["comm"] = "send"
    /\ \E accepted \in (IF g_sock = "awaiting" THEN {FALSE} ELSE BOOLEAN) :
          /\ transport_failures' = FailuresAfterSend(transport_failures, accepted)
          /\ IF accepted
             THEN /\ g_sock' = "awaiting"
                  /\ Goto("comm", "recv")
                  /\ UNCHANGED <<current_reading, data_consistent, message,
                                 stats_log>>
             ELSE /\ AfterExchange
                  /\ UNCHANGED g_sock
    /\ UNCHANGED <<running, sensor_reading, cpu_vars, usage, total_reads,
                   corruption_count, env_vars, final_stats, ticks,
                   history_vars>>

RecvOutcomes == {"reply", "no_reply", "throws"}

\* g_sock->recv(reply, none) returns: with the reply, without one, or by
\* throwing. It returns only when the collector or the transport makes it.
CommRecvOf(outcomes) ==
    /\ pc["comm"] = "recv"
    /\ \E outcome \in outcomes :
          /\ g_sock' = IF outcome = "reply" THEN "ready" ELSE g_sock
          /\ transport_failures' = FailuresAfterRecv(transport_failures, outcome)
    /\ AfterExchange
    /\ UNCHANGED <<running, sensor_reading, cpu_vars, usage, total_reads,
                   corruption_count, env_vars, final_stats, ticks,
                   history_vars>>

CommRecv == CommRecvOf(RecvOutcomes)

\* the receive on a channel on which no reply ever arrives
CommRecvFails == CommRecvOf(RecvOutcomes \ {"reply"})

\* the steps of comm_thread that do not wait for the collector
comm_thread_local ==
    \/ CommLoop \/ CommCopyValue \/ CommCopyTimestamp \/ CommCopyIsValid
    \/ CommProcess \/ CommSend

comm_thread == comm_thread_local \/ CommRecv

\* ------------------------------------------- overlapping accesses (races)
\* the measurement each sampler takes when it enters its loop body
Measures(t) ==
    IF t = "cpu"
    THEN calculate_cpu_usage /\ UNCHANGED usage
    ELSE measure_disk_usage /\ UNCHANGED cpu_vars

\* comm_thread copies sensor_id while sampler t assigns it
RacedCopyId(t) ==
    /\ Enters(t)
    /\ pc["comm"] = "loop"
    /\ BeginTick
    /\ Measures(t)
    /\ pubs' = [pubs EXCEPT ![t] = @ + 1]
    /\ sensor_reading' = [sensor_reading EXCEPT !.sensor_id = SensorId(t)]
    /\ current_reading' = [SensorData EXCEPT !.sensor_id = Garbled]
    /\ pc' = [pc EXCEPT ![t] = "set_value", !["comm"] = "copy_value"]
    /\ UNCHANGED <<running, data_consistent, total_reads, corruption_count,
                   message, g_sock, env_vars, stats_log, final_stats,
                   published>>

\* comm_thread copies timestamp while sampler t assigns it
RacedCopyTimestamp(t) ==
    /\ pc[t] = "set_ts"
    /\ pc["comm"] = "copy_ts"
    /\ \E clock \in ClockReadings :
          /\ sensor_reading' = [sensor_reading EXCEPT !.timestamp = timestamp(clock)]
          /\ published' = published \cup {Publication(t, clock)}
    /\ current_reading' = [current_reading EXCEPT !.timestamp = Garbled]
    /\ pc' = [pc EXCEPT ![t] = "set_valid", !["comm"] = "copy_valid"]
    /\ UNCHANGED <<running, cpu_vars, usage, data_consistent, total_reads,
                   corruption_count, message, g_sock, env_vars, log_vars, ticks, pubs>>

\* both samplers assign sensor_id at once
RacedStoreId ==
    /\ \A t \in Samplers : Enters(t)
    /\ calculate_cpu_usage
    /\ measure_disk_usage
    /\ pubs' = [t \in Samplers |-> pubs[t] + 1]
    /\ \E id \in {CPU_ID, DISK_ID, Garbled} :
          sensor_reading' = [sensor_reading EXCEPT !.sensor_id = id]
    /\ pc' = [pc EXCEPT !["cpu"] = "set_value", !["disk"] = "set_value"]
    /\ UNCHANGED <<running, comm_vars, env_vars, log_vars, ticks, published>>

\* both samplers assign timestamp at once
RacedStoreTimestamp ==
    /\ \A t \in Samplers : pc[t] = "set_ts"
    /\ \E c1, c2 \in ClockReadings :
          /\ \E ts \in {timestamp(c1), timestamp(c2), Garbled} :
                sensor_reading' = [sensor_reading EXCEPT !.timestamp = ts]
          /\ published' = published
                \cup {Publication("cpu", c1), Publication("disk", c2)}
    /\ pc' = [pc EXCEPT !["cpu"] = "set_valid", !["disk"] = "set_valid"]
    /\ UNCHANGED <<running, cpu_vars, usage, comm_vars, env_vars, log_vars, ticks, pubs>>

RacedCopyIdCpu  == RacedCopyId("cpu")
RacedCopyIdDisk == RacedCopyId("disk")
RacedCopyTimestampCpu  == RacedCopyTimestamp("cpu")
RacedCopyTimestampDisk == RacedCopyTimestamp("disk")

\* --------------------------------------------------------------------- main
MainStep(from) ==
    /\ pc["main"] = from
    /\ UNCHANGED <<sensor_reading, cpu_vars, usage, current_reading,
                   data_consistent, total_reads, corruption_count, message,
                   proc_stat, log_vars, ticks, history_vars>>

\* mutant of MainAfterConnect: the catch block falls through
MainAfterConnect_FallsThrough(connected) == "start"

\* where main continues after the try block: catch { ...; return 1; }
MainAfterConnect(connected) == IF connected THEN "start" ELSE "failed"

\* g_sock->connect(endpoint) inside try; catch: return 1
MainConnect ==
    /\ MainStep("connect")
    /\ \E connected \in BOOLEAN :
          /\ g_sock' = IF connected THEN "ready" ELSE g_sock
          /\ exit_status' =
                IF MainAfterConnect(connected) = "failed" THEN 1 ELSE exit_status
          /\ Goto("main", MainAfterConnect(connected))
    /\ UNCHANGED running

\* std::thread t1(sensor_thread); t2(disk_usage_thread); t3(comm_thread);
MainStartThreads ==
    /\ MainStep("start")
    /\ pc' = [pc EXCEPT !["main"] = "join_t1", !["cpu"] = "start",
                        !["disk"] = "loop", !["comm"] = "loop"]
    /\ UNCHANGED <<running, g_sock, exit_status>>

\* t.join()
MainJoin(from, to, t) ==
    /\ MainStep(from)
    /\ pc[t] = "done"
    /\ Goto("main", to)
    /\ UNCHANGED <<running, g_sock, exit_status>>

MainJoinT1 == MainJoin("join_t1", "join_t2", "cpu")
MainJoinT2 == MainJoin("join_t2", "stop", "disk")
MainJoinT3 == MainJoin("join_t3", "return", "comm")

\* running = false
MainStop ==
    /\ MainStep("stop")
    /\ running' = FALSE
    /\ Goto("main", "join_t3")
    /\ UNCHANGED <<g_sock, exit_status>>

\* return 0
MainReturn ==
    /\ MainStep("return")
    /\ exit_status' = 0
    /\ Goto("main", "done")
    /\ UNCHANGED <<running, g_sock>>

main ==
    \/ MainConnect \/ MainStartThreads \/ MainJoinT1 \/ MainJoinT2 \/ MainStop
    \/ MainJoinT3 \/ MainReturn

\* ------------------------------------------------------------ specification
\* every step except the return of recv
Local ==
    \/ handle_sigint
    \/ CpuStart \/ CpuLoop \/ CpuSetValue \/ CpuSetTimestamp \/ CpuSetIsValid
    \/ DiskLoop \/ DiskSetValue \/ DiskSetTimestamp \/ DiskSetIsValid
    \/ CommLoop \/ CommCopyValue \/ CommCopyTimestamp \/ CommCopyIsValid
    \/ CommProcess \/ CommSend
    \/ MainConnect \/ MainStartThreads \/ MainJoinT1 \/ MainJoinT2 \/ MainStop
    \/ MainJoinT3 \/ MainReturn
    \/ RacedCopyIdCpu \/ RacedCopyIdDisk
    \/ RacedCopyTimestampCpu \/ RacedCopyTimestampDisk
    \/ RacedStoreId \/ RacedStoreTimestamp

Next == Local \/ CommRecv

Spec == Init /\ [][Next]_vars

\* Threads that can take a step are scheduled; comm_thread's return from recv
\* is up to the collector and carries no fairness.
FairSpec ==
    /\ Spec
    /\ WF_vars(sensor_thread)
    /\ WF_vars(disk_usage_thread)
    /\ WF_vars(comm_thread_local)
    /\ WF_vars(main)

\* ------------------------------------------------------ a failing channel
\* the collector never replies: every recv returns without a reply or throws
NextFailingChannel == Local \/ CommRecvFails

SpecFailingChannel == Init /\ [][NextFailingChannel]_vars

\* the failing recv does return, and the threads are scheduled
FairSpecFailingChannel ==
    /\ SpecFailingChannel
    /\ WF_vars(sensor_thread)
    /\ WF_vars(disk_usage_thread)
    /\ WF_vars(comm_thread_local)
    /\ WF_vars(CommRecvFails)
    /\ WF_vars(main)

\* ------------------------------------ the CPU usage as a function of counters
\* counters /proc/stat can show at a read: small values of the busy and the
\* idle columns, in any order from one read to the next, all zero included
CpuTimesInputs ==
    [user : 0..2, nice : {0}, system : 0..1, idle : 0..2, iowait : 0..1,
     irq : {0}, softirq : {0}, steal : {0}]

\* main has just started the threads; /proc/stat will show any of the inputs
InitCpu ==
    /\ running = TRUE
    /\ sensor_reading = SensorData
    /\ prev_cpu_times = ZeroCpuTimes
    /\ pc = [t \in Threads |->
                CASE t = "main" -> "join_t1"
                  [] t = "cpu"  -> "start"
                  [] OTHER      -> "loop"]
    /\ cpu_usage = NoValue
    /\ usage = NoValue
    /\ current_reading = SensorData
    /\ data_consistent = TRUE
    /\ total_reads = 0
    /\ corruption_count = 0
    /\ message = NoMessage
    /\ g_sock = "ready"
    /\ exit_status = -1
    /\ proc_stat \in [0..MaxPubs -> CpuTimesInputs]
    /\ transport_failures = 0
    /\ stats_log = <<>>
    /\ final_stats = <<>>
    /\ ticks = 0
    /\ pubs = [t \in Samplers |-> 0]
    /\ published = {}

SpecCpu == InitCpu /\ [][sensor_thread]_vars

\* ------------------------------------------- the statistics near a period
\* what the samplers have done when the reporter nears its STATS_PERIOD-th
\* read: nothing yet, one disk publication, or one publication each with the
\* CPU one landing last
SamplerHistories ==
    {[slot |-> SensorData, pubs |-> [t \in Samplers |-> 0], prev |-> ZeroCpuTimes,
      cpu |-> "start", published |-> {}, corruptions |-> {0}]}
    \cup
    {[slot |-> [sensor_id |-> DISK_ID, value |-> v, timestamp |-> timestamp(1),
                is_valid |-> TRUE],
      pubs |-> [t \in Samplers |-> IF t = "disk" THEN 1 ELSE 0],
      prev |-> ZeroCpuTimes, cpu |-> "start",
      published |-> {[sensor_id |-> DISK_ID, value |-> v,
                      timestamp |-> timestamp(1)]},
      corruptions |-> {0}] : v \in {Whole(-1), Whole(50)}}
    \cup
    {[slot |-> [sensor_id |-> CPU_ID, value |-> Whole(100),
                timestamp |-> timestamp(1), is_valid |-> TRUE],
      pubs |-> [t \in Samplers |-> 1], prev |-> BusyMachine[1], cpu |-> "loop",
      published |-> {[sensor_id |-> CPU_ID, value |-> Whole(100),
                      timestamp |-> timestamp(1)],
                     [sensor_id |-> DISK_ID, value |-> Whole(50),
                      timestamp |-> timestamp(1)]},
      corruptions |-> {0, 1}]}

\* the reporter is at the top of its loop one or two reads before a multiple
\* of STATS_PERIOD; the samplers are between steps
InitStats ==
    /\ running = TRUE
    /\ \E h \in SamplerHistories :
          /\ sensor_reading = h.slot
          /\ pubs = h.pubs
          /\ prev_cpu_times = h.prev
          /\ published = h.published
          /\ corruption_count \in h.corruptions
          /\ pc = [t \in Threads |->
                      CASE t = "main" -> "join_t1"
                        [] t = "cpu"  -> h.cpu
                        [] OTHER      -> "loop"]
    /\ cpu_usage = NoValue
    /\ usage = NoValue
    /\ current_reading = SensorData
    /\ data_consistent = TRUE
    /\ total_reads \in {STATS_PERIOD - 2, STATS_PERIOD - 1}
    /\ message = NoMessage
    /\ g_sock = "ready"
    /\ exit_status = -1
    /\ proc_stat = BusyMachine
    /\ transport_failures = 0
    /\ stats_log = <<>>
    /\ final_stats = <<>>
    /\ ticks = 0

SpecStats == InitStats /\ [][comm_thread \/ handle_sigint]_vars

\* ------------------------------------------- validation as a pure function
\* readings the validation is applied to: every sensor_id and timestamp
\* shape, values on both sides of each limit
ValidationValues ==
    {Whole(-1), Ratio(-1, 10000), Whole(0), Whole(50), Whole(100),
     Ratio(1000001, 10000), Whole(142)}

ValidationInputs ==
    [sensor_id : {"", CPU_ID, DISK_ID, Garbled},
     value     : ValidationValues,
     timestamp : {"", timestamp(1)},
     is_valid  : BOOLEAN]

\* comm_thread has just copied the slot; the other threads are between steps
InitValidate ==
    /\ running = TRUE
    /\ sensor_reading = SensorData
    /\ prev_cpu_times = ZeroCpuTimes
    /\ pc = [t \in Threads |->
                CASE t = "main" -> "join_t1"
                  [] t = "comm" -> "process"
                  [] OTHER      -> "loop"]
    /\ cpu_usage = NoValue
    /\ usage = NoValue
    /\ current_reading \in ValidationInputs
    /\ data_consistent = TRUE
    /\ total_reads = 0
    /\ corruption_count = 0
    /\ message = NoMessage
    /\ g_sock = "ready"
    /\ exit_status = -1
    /\ proc_stat = BusyMachine
    /\ transport_failures = 0
    /\ stats_log = <<>>
    /\ final_stats = <<>>
    /\ ticks = 0
    /\ pubs = [t \in Samplers |-> 0]
    /\ published = {}

SpecValidate == InitValidate /\ [][CommProcess]_vars

\* ------------------------------------------------------------------ claims
Triple(r) ==
    [sensor_id |-> r.sensor_id, value |-> r.value, timestamp |-> r.timestamp]

\* the reporter is handling a snapshot it did not skip
Processing == pc["comm"] \in {"send", "recv"}

\* sampler t is inside its loop body with members still to write
MidPublication(t) == pc[t] \in {"set_value", "set_ts", "set_valid"}

\* the step of a reporter tick that counts, validates and builds the message
TickStep == pc["comm"] = "process" /\ pc'["comm"] # "process"

\* the validation rule as the specification words it
FlaggedInconsistent(r) ==
    \/ (r.sensor_id = "cpu_usage_01"
            /\ (r.value.num < 0 \/ r.value.num > 100 * r.value.den))
    \/ (r.sensor_id = "disk_usage_root" /\ r.value.num > 100 * r.value.den)
    \/ r.sensor_id = ""
    \/ r.timestamp = ""

MessageValue(m) ==
    IF "cpu_usage_percent" \in DOMAIN m
    THEN m.cpu_usage_percent
    ELSE m.disk_usage_percent

\* C1: every snapshot the reporter processes equals, in sensor_id, value and
\* timestamp, the arguments of one single publication made before it.
C1_SnapshotIsOnePublication ==
    Processing => Triple(current_reading) \in published

\* C2: whenever no sampler is in the middle of a publication and one has
\* landed, the slot holds the three values of one single publication.
C2_SlotIsOnePublication ==
    (sensor_reading.is_valid /\ \A t \in Samplers : ~MidPublication(t))
        => Triple(sensor_reading) \in published

\* C3: when the reporter issues a send, no earlier request is still without
\* its reply.
C3_SendOnlyAfterReply ==
    pc["comm"] = "send" => g_sock = "ready"

\* C4: once running is false, main eventually returns.
C4_ShutdownTerminates ==
    (~running) ~> (pc["main"] \in {"done", "failed"})

\* C5: the reporter loop has not exited while a sampler is still inside its
\* loop body and writes to the slot.
C5_ReporterOutlivesSamplers ==
    pc["comm"] = "done" => \A t \in Samplers : ~MidPublication(t)

\* no sampler has completed a publication yet
NothingPublished ==
    \A t \in Samplers : pubs[t] = 0 \/ (pubs[t] = 1 /\ MidPublication(t))

\* C6: as long as no sampler has completed a first publication, the reporter
\* has validated nothing, built no message and sent nothing.
C6_NeverPublishedIsSkipped ==
    NothingPublished =>
        /\ ~Processing
        /\ message = NoMessage
        /\ g_sock # "awaiting"
        /\ corruption_count = 0
        /\ data_consistent

\* C6 witness: a reporter tick has run to its end before any publication
C6_SkippedTick ==
    NothingPublished /\ total_reads >= 1 /\ pc["comm"] = "loop"

C8_CorruptionCountPerTick ==
    [][/\ TickStep =>
            corruption_count' = corruption_count +
                (IF current_reading.is_valid /\ FlaggedInconsistent(current_reading)
                 THEN 1 ELSE 0)
       /\ ~TickStep => corruption_count' = corruption_count]_vars

\* C8 witness: a corruption was counted on a tick whose exchange failed
C8_CountedWithFailedExchange ==
    /\ pc["comm"] = "loop"
    /\ corruption_count = 1
    /\ g_sock = "awaiting"

\* C9: a processed reading is flagged exactly by the validation rule; CPU
\* values 0 and 100 and a negative disk value pass, an empty sensor_id fails.
C9_ValidationRule ==
    pc["comm"] = "send" =>
        /\ data_consistent = ~FlaggedInconsistent(current_reading)
        /\ (current_reading.sensor_id = "cpu_usage_01"
                /\ current_reading.value \in {Whole(0), Whole(100)}
                /\ current_reading.timestamp # "") => data_consistent
        /\ (current_reading.sensor_id = "disk_usage_root"
                /\ current_reading.value.num < 0
                /\ current_reading.timestamp # "") => data_consistent
        /\ current_reading.sensor_id = "" => ~data_consistent

\* C9 witness: a CPU reading of exactly 100 was validated as consistent
C9_CpuHundredConsistent ==
    /\ pc["comm"] = "send"
    /\ current_reading.sensor_id = "cpu_usage_01"
    /\ current_reading.value = Whole(100)
    /\ data_consistent

\* C10: the message of a processed tick carries the snapshot's sensor_id,
\* timestamp and value and data_consistent as the negated validation flag; a
\* reading that fails validation is counted once and still goes to send; the
\* message is what send is called with.
C10_MessageCarriesSnapshot ==
    [][/\ (TickStep /\ current_reading.is_valid) =>
            /\ pc'["comm"] = "send"
            /\ message'.sensor_id = current_reading.sensor_id
            /\ message'.timestamp = current_reading.timestamp
            /\ MessageValue(message') = current_reading.value
            /\ message'.data_consistent = ~FlaggedInconsistent(current_reading)
            /\ FlaggedInconsistent(current_reading) =>
                  corruption_count' = corruption_count + 1
       /\ pc["comm"] = "send" =>
            /\ message.sensor_id = current_reading.sensor_id
            /\ message.timestamp = current_reading.timestamp
            /\ MessageValue(message) = current_reading.value
            /\ message.data_consistent = ~FlaggedInconsistent(current_reading)]_vars

\* C10 witness: a reading that failed validation was sent, marked inconsistent
C10_InconsistentSent ==
    /\ pc["comm"] = "recv"
    /\ message # NoMessage
    /\ ~message.data_consistent
    /\ corruption_count = 1

\* a processed tick reaches the end of its iteration
TickCompletes == Processing /\ pc'["comm"] = "loop"

\* C11: on a channel on which every exchange fails, each processed tick logs
\* exactly one transport failure (none before its exchange ends, one when it
\* ends), the reporter leaves its loop only when running is false, and every
\* processed tick completes.
C11_TransportResilience ==
    /\ [](Processing => transport_failures = 0)
    /\ [][/\ TickCompletes => transport_failures' = 1
          /\ (pc'["comm"] = "done" /\ pc["comm"] # "done") => ~running]_vars
    /\ (Processing ~> pc["comm"] = "loop")

\* C11 witness: after an earlier exchange failed in recv, a further processed
\* tick has failed and logged its failure, and the reporter is back at the top
\* of its loop with running still true
C11_FailedTicksStillRunning ==
    /\ transport_failures = 1
    /\ g_sock = "awaiting"
    /\ total_reads = 2
    /\ corruption_count = 2
    /\ pc["comm"] = "loop"
    /\ running

\* C12: without a connection main goes no further than returning a non-zero
\* status: no thread is started, nothing is published, no message is built or
\* sent; and main fails only without a connection.
C12_StartupFailureIsFatal ==
    /\ g_sock = "none" =>
          /\ pc["main"] \in {"connect", "failed"}
          /\ \A t \in Threads \ {"main"} : pc[t] = "idle"
          /\ published = {}
          /\ sensor_reading = SensorData
          /\ message = NoMessage
          /\ total_reads = 0
          /\ transport_failures = 0
    /\ pc["main"] = "failed" => (g_sock = "none" /\ exit_status > 0)
    /\ exit_status > 0 => pc["main"] = "failed"

\* C12 witness: the connection failed and main has returned
C12_ConnectFailed ==
    pc["main"] = "failed" /\ exit_status = 1 /\ g_sock = "none"

\* ticks counted by a CpuTimes sample, all of them and the idle ones
TotalTicks(t) ==
    t.user + t.nice + t.system + t.idle + t.iowait + t.irq + t.softirq + t.steal
IdleTicks(t) == t.idle + t.iowait

\* the CPU sampler computes its first usage value
FirstCpuComputation == pubs["cpu"] = 0 /\ pubs'["cpu"] = 1

\* a step of sensor_thread
CpuSamplerStep == pc'["cpu"] # pc["cpu"]

CpuComputation == pubs'["cpu"] = pubs["cpu"] + 1

\* C14: for every pair of previous and current counters calculate_cpu_usage
\* returns a value in [0, 100], returns 0 when the total delta is not
\* positive, and leaves the current counters as the previous ones.
C14_CpuUsageInRange ==
    [][CpuComputation =>
          LET current == proc_stat[pubs'["cpu"]]
              total   == TotalTicks(current) - TotalTicks(prev_cpu_times)
          IN  /\ ~Lt(cpu_usage', 0)
              /\ ~Gt(cpu_usage', 100)
              /\ (total <= 0 => cpu_usage' = Whole(0))
              /\ prev_cpu_times' = current]_vars

\* the disk sampler is publishing the result of a failed capacity query
DiskFailed == MidPublication("disk") /\ usage = Whole(-1)

\* a publication of a failed capacity query
FailedDiskPublication(p) ==
    p.sensor_id = "disk_usage_root" /\ p.value = Whole(-1)

\* C15: after a failed capacity query the disk sampler writes value -1,
\* publishes under disk_usage_root, sets is_valid and returns to the top of
\* its loop, which it leaves only when running is false; a reporter tick
\* whose snapshot is exactly that publication builds the message with
\* data_consistent = true, goes on to send it and counts no corruption.
C15_DiskFailureNonFatal ==
    [][/\ (DiskFailed /\ pc["disk"] = "set_value" /\ pc'["disk"] = "set_ts")
            => sensor_reading'.value = Whole(-1)
       /\ (DiskFailed /\ pc["disk"] = "set_ts" /\ pc'["disk"] = "set_valid")
            => \E p \in published' : FailedDiskPublication(p)
       /\ (DiskFailed /\ pc["disk"] = "set_valid" /\ pc'["disk"] # "set_valid")
            => (sensor_reading'.is_valid /\ pc'["disk"] = "loop")
       /\ (pc'["disk"] = "done" /\ pc["disk"] # "done") => ~running
       /\ (/\ TickStep
           /\ current_reading.is_valid
           /\ Triple(current_reading) \in published
           /\ FailedDiskPublication(current_reading))
            => /\ pc'["comm"] = "send"
               /\ message' = [sensor_id |-> "disk_usage_root",
                               timestamp |-> current_reading.timestamp,
                               disk_usage_percent |-> Whole(-1),
                               data_consistent |-> TRUE]
               /\ corruption_count' = corruption_count]_vars

\* C15 witness: the reporter is about to send the publication of a failed
\* query, marked consistent, with no corruption counted
C15_FailedQuerySent ==
    /\ pc["comm"] = "send"
    /\ Triple(current_reading) \in published
    /\ FailedDiskPublication(current_reading)
    /\ message.data_consistent
    /\ corruption_count = 0
    /\ pc["disk"] = "loop"

\* the send call hands a request to the socket
SendStep == g_sock # "awaiting" /\ g_sock' = "awaiting"

\* C16: a message of cpu_usage_01 has exactly the fields sensor_id,
\* timestamp, cpu_usage_percent and data_consistent, a message of
\* disk_usage_root has disk_usage_percent in place of cpu_usage_percent; a
\* request is handed to the socket only by the send of a tick, once, after
\* which the tick ends.
C16_MessageShape ==
    /\ [](Processing =>
            /\ message.sensor_id = "cpu_usage_01" =>
                  /\ DOMAIN message = {"sensor_id", "timestamp",
                                       "cpu_usage_percent", "data_consistent"}
                  /\ message.cpu_usage_percent = current_reading.value
            /\ message.sensor_id = "disk_usage_root" =>
                  /\ DOMAIN message = {"sensor_id", "timestamp",
                                       "disk_usage_percent", "data_consistent"}
                  /\ message.disk_usage_percent = current_reading.value)
    /\ [][/\ SendStep => (pc["comm"] = "send" /\ pc'["comm"] = "recv")
          /\ (pc["comm"] = "recv" /\ pc'["comm"] # "recv")
                => pc'["comm"] = "loop"]_vars

\* C16 witness: a CPU message has been sent and awaits its reply
C16_CpuMessageSent ==
    /\ pc["comm"] = "recv"
    /\ message.sensor_id = "cpu_usage_01"
    /\ "cpu_usage_percent" \in DOMAIN message

\* sampler t has a step of its code to take within the iterations explored
HasNextStep(t) ==
    \/ pc[t] \in {"start", "set_value", "set_ts", "set_valid"}
    \/ (pc[t] = "loop" /\ (~running \/ pubs[t] < MaxPubs))

\* that step can be taken in the current state
CanStep(t) ==
    IF t = "cpu" THEN ENABLED sensor_thread ELSE ENABLED disk_usage_thread

\* C17: whatever the reporter is doing, blocked in recv or between ticks, a
\* sampler with a step to take can take it, and a sampler that has begun a
\* publication completes it.
C17_SamplersNeverWait ==
    /\ [](\A t \in Samplers : HasNextStep(t) => CanStep(t))
    /\ \A t \in Samplers : (MidPublication(t) ~> pc[t] = "loop")

\* C17 witness: the reporter awaits a reply while the CPU sampler is in the
\* middle of a publication
C17_SamplerMidPublicationDuringRecv ==
    /\ pc["comm"] = "recv"
    /\ pc["cpu"] = "set_value"
    /\ HasNextStep("cpu")

\* a reporter tick, processed or skipped, reaches the end of its iteration
TickEnds ==
    pc["comm"] \in {"process", "send", "recv"} /\ pc'["comm"] = "loop"

\* the reporter leaves its loop
LoopExits == pc["comm"] # "done" /\ pc'["comm"] = "done"

\* C18: a tick at which total_reads has become a multiple of 50 logs one
\* rolling summary of the counters, no other tick logs one; leaving the loop
\* logs the one final summary of the final counters, with rate 0 when
\* total_reads is 0.
C18_StatsLogging ==
    [][/\ TickEnds =>
            stats_log' =
                IF total_reads' % 50 = 0
                THEN Append(stats_log,
                            [total_reads |-> total_reads',
                             corruptions |-> corruption_count',
                             rate |-> Ratio(corruption_count' * 100, total_reads')])
                ELSE stats_log
       /\ ~TickEnds => stats_log' = stats_log
       /\ LoopExits =>
            final_stats' =
                <<[total_reads |-> total_reads,
                   corruptions |-> corruption_count,
                   rate |-> IF total_reads = 0 THEN Whole(0)
                            ELSE Ratio(corruption_count * 100, total_reads)]>>
       /\ ~LoopExits => final_stats' = final_stats]_vars

\* C19: corruption_count stays between 0 and total_reads; neither counter
\* decreases, and both change only in the reporter's own counting step.
C19_StatsInvariant ==
    /\ [](0 <= corruption_count /\ corruption_count <= total_reads)
    /\ [][/\ total_reads' >= total_reads
          /\ corruption_count' >= corruption_count
          /\ <<total_reads, corruption_count>>' # <<total_reads, corruption_count>>
                => TickStep]_vars

\* C19 witness: both counters have advanced, by different amounts
C19_CountersAdvanced ==
    corruption_count = 1 /\ total_reads = 2

\* the message has been handed to the socket and its reply is awaited
MessageSent == pc["comm"] = "recv"

\* C20: a message sent with data_consistent = true carries the sensor_id,
\* value and timestamp of one single publication.
C20_ConsistentFlagSound ==
    (MessageSent /\ message.data_consistent) =>
        [sensor_id |-> message.sensor_id,
         value     |-> MessageValue(message),
         timestamp |-> message.timestamp] \in published
====
